---------------------------- MODULE Spec2Model ----------------------------
(***************************************************************************)
(* State-machine model of the TubeTale analytics backend:                  *)
(*   services/gemini_service.py  (extract_json, extract_video_id,          *)
(*                                fetch_video_metadata, analyze_channel,   *)
(*                                run_battle, analyze_video_truth, cache)  *)
(*   services/data_processor.py  (the statistics helpers)                  *)
(*   app.py                      (the three POST handlers)                 *)
(*                                                                         *)
(* Texts are sequences of lexemes rather than of characters: every lexeme  *)
(* stands for one fixed character string, so a model text is one concrete  *)
(* Python string and the regular expressions and the JSON grammar are      *)
(* evaluated on it lexeme by lexeme.                                       *)
(***************************************************************************)
EXTENDS Integers, Sequences, FiniteSets, TLC

VARIABLES
    cache,        \* gemini_service.cache: dict cache_key -> channel report
    pc,           \* per request thread: position in the handler / service code
    op,           \* per thread: the entry point of the running request
    arg,          \* per thread: the request's JSON body, or a direct call's argument
    idx,          \* per thread: run_battle's position in channel_names
    channels,     \* per thread: run_battle's list of analysed channels
    response,     \* per thread: the model response being processed
    metadata,     \* per thread: analyze_video_truth's fetched metadata
    result,       \* per thread: the value returned by the service function
    err,          \* per thread: the exception raised by the service function
    status,       \* per thread: the HTTP status answered (0: none yet)
    calls,        \* per thread: model invocations issued by the request
    fetches,      \* per thread: metadata fetches issued by the request
    lastCall,     \* per thread: record of the latest analyze_channel call
    returned,     \* history: per case-folded name, the latest report returned
    entryCache,   \* history, per thread: the cache as the running request found it
    text,         \* extract_json: the argument
    parsed,       \* extract_json: the outcome
    topics,       \* normalize_topic_distribution: the argument
    distribution, \* normalize_topic_distribution: the returned rows
    df,           \* calculate_trend_prediction: the subscribers column
    fperr,        \* calculate_trend_prediction: sign of polyfit's rounding error
    prediction    \* calculate_trend_prediction: the returned dict

serverVars == <<cache, pc, op, arg, idx, channels, response, metadata, result,
                err, status, calls, fetches, lastCall, returned, entryCache>>
jsonVars   == <<text, parsed>>
topicVars  == <<topics, distribution>>
trendVars  == <<df, fperr, prediction>>
pureVars   == <<jsonVars, topicVars, trendVars>>
vars       == <<serverVars, pureVars>>

(***************************************************************************)
(* Optional values: <<>> is Python's None / "no value", <<v>> is v.        *)
(***************************************************************************)
None    == <<>>
Some(v) == <<v>>

(***************************************************************************)
(*                       JSON SALVAGE: extract_json                        *)
(***************************************************************************)

\* Bound: longest text handed to extract_json in the extractor's own check.
MaxTextLen == 5

\* Lexemes standing for the members of a JSON object ("k": v, ...).  Each is
\* the body of one object the model may answer with; Members gives its content.
ChannelBodies == {"chanA", "chanB", "noStats"}
BattleBodies  == {"scores0", "scores1", "scores2", "scores3", "noScores",
                  "noVerdict", "noOverall"}
TruthBodies   == {"truthOwn", "truthBare"}
MemberLexemes == ChannelBodies \cup BattleBodies \cup TruthBodies

\* Fence stands for the three-backtick marker of a fenced block.
Fence == "FENCE"
Space == " "
Digit == "1"

\* The alphabet of the extractor's own check.
Lexemes == {"{", "}", "[", "]", Digit, Space, Fence, "json", "chanA"}

\* str.strip(): drop leading and trailing whitespace.
RECURSIVE LStrip(_)
LStrip(s) == IF s # <<>> /\ Head(s) = Space THEN LStrip(Tail(s)) ELSE s
RECURSIVE RStrip(_)
RStrip(s) ==
    IF s # <<>> /\ s[Len(s)] = Space THEN RStrip(SubSeq(s, 1, Len(s) - 1)) ELSE s
strip(s) == RStrip(LStrip(s))

AllDigits(s) == s # <<>> /\ \A i \in 1..Len(s) : s[i] = Digit

\* The JSON grammar on lexemes, for a text without surrounding whitespace:
\* a number, an object (empty or with one member list), an array (empty or of
\* one value).  Whitespace is allowed inside the brackets, not inside a number.
IsMembers(inner) == inner = <<>> \/ (Len(inner) = 1 /\ inner[1] \in MemberLexemes)

RECURSIVE IsJsonValue(_)
IsElements(inner) == inner = <<>> \/ IsJsonValue(inner)
IsJsonValue(s) ==
    \/ AllDigits(s)
    \/ /\ Len(s) >= 2 /\ s[1] = "{" /\ s[Len(s)] = "}"
       /\ IsMembers(strip(SubSeq(s, 2, Len(s) - 1)))
    \/ /\ Len(s) >= 2 /\ s[1] = "[" /\ s[Len(s)] = "]"
       /\ IsElements(strip(SubSeq(s, 2, Len(s) - 1)))

\* The parsed value: the text with its insignificant whitespace removed.
Compact(s) == SelectSeq(s, LAMBDA x : x # Space)

\* json.loads: Some(value), or None for json.JSONDecodeError.
json_loads(s) == IF IsJsonValue(strip(s)) THEN Some(Compact(s)) ELSE None

\* Index of the first non-whitespace lexeme at or after i (Len(s)+1 if none).
RECURSIVE SkipSpaces(_, _)
SkipSpaces(s, i) ==
    IF i <= Len(s) /\ s[i] = Space THEN SkipSpaces(s, i + 1) ELSE i

\* One attempt of the pattern of line 46 (labelled) or of line 47 at
\* position i: fence, optional json label, whitespace, the group, whitespace,
\* fence.  FenceOpen is where the group has to start (0: no fence here),
\* FenceCloses the closing braces that let the rest of the pattern match.
FenceOpen(s, i, labelled) ==
    IF i <= Len(s) /\ s[i] = Fence
    THEN IF labelled
         THEN IF i + 1 <= Len(s) /\ s[i + 1] = "json"
              THEN SkipSpaces(s, i + 2) ELSE 0
         ELSE SkipSpaces(s, i + 1)
    ELSE 0

ClosesAt(s, k, j) == s[k] = "}" /\ j <= Len(s) /\ s[j] = Fence
FenceCloses(s, b) ==
    {k \in (b + 1)..Len(s) : ClosesAt(s, k, SkipSpaces(s, k + 1))}

GroupAt(s, b) == b > 0 /\ b <= Len(s) /\ s[b] = "{" /\ FenceCloses(s, b) # {}
FenceMatchAt(s, i, labelled) == GroupAt(s, FenceOpen(s, i, labelled))

Minimum(S) == CHOOSE m \in S : \A n \in S : m <= n
Maximum(S) == CHOOSE m \in S : \A n \in S : n <= m

\* re.search(pattern, clean_text).group(1): the group of the leftmost match,
\* the lazy quantifier ending it at the first closing brace that fits; or None.
GroupFrom(s, b) == SubSeq(s, b, Minimum(FenceCloses(s, b)))
LeftmostGroup(s, starts, labelled) ==
    IF starts = {} THEN None
    ELSE Some(GroupFrom(s, FenceOpen(s, Minimum(starts), labelled)))
re_search(s, labelled) ==
    LeftmostGroup(s, {i \in 1..Len(s) : FenceMatchAt(s, i, labelled)}, labelled)

\* str.find('{') and str.rfind('}'): 0 stands for Python's -1.
FirstIn(at) == IF at = {} THEN 0 ELSE Minimum(at)
LastIn(at)  == IF at = {} THEN 0 ELSE Maximum(at)
find(s, c)  == FirstIn({i \in 1..Len(s) : s[i] = c})
rfind(s, c) == LastIn({i \in 1..Len(s) : s[i] = c})

Ok(v)     == [ok |-> TRUE, value |-> v, error |-> "none"]
Raise(e)  == [ok |-> FALSE, value |-> <<>>, error |-> e]

ParseFailed == Raise("Failed to parse AI response as JSON")
Loaded(got) == IF got # None THEN Ok(got[1]) ELSE ParseFailed

\* Lines 58-68: the first-brace / last-brace strategy, then the final raise.
BraceSpanOf(clean_text, first_brace, last_brace) ==
    IF first_brace # 0 /\ last_brace # 0 /\ last_brace > first_brace
    THEN Loaded(json_loads(SubSeq(clean_text, first_brace, last_brace)))
    ELSE ParseFailed
BraceSpan(clean_text) ==
    BraceSpanOf(clean_text, find(clean_text, "{"), rfind(clean_text, "}"))

\* Lines 50-56: one fenced pattern; None means "go on to the next strategy".
LoadGroup(match) == IF match = None THEN None ELSE json_loads(match[1])
FencedBlock(clean_text, labelled) == LoadGroup(re_search(clean_text, labelled))

\* Lines 38-68: the strategies in order, the first that parses wins.
FirstSuccess(direct, one, two, last) ==
    IF direct # None THEN Ok(direct[1])
    ELSE IF one # None THEN Ok(one[1])
    ELSE IF two # None THEN Ok(two[1])
    ELSE last
Strategies(clean_text) ==
    FirstSuccess(json_loads(clean_text), FencedBlock(clean_text, TRUE),
                 FencedBlock(clean_text, FALSE), BraceSpan(clean_text))

\* extract_json(text), lines 29-68.
extract_json(t) ==
    IF t = <<>> THEN Raise("AI returned an empty response")
    ELSE Strategies(strip(t))

(***************************************************************************)
(*                    STATISTICS: services/data_processor.py               *)
(***************************************************************************)

\* Bounds of the statistics checks.
MaxTopics     == 3
MaxTopicValue == 3
MaxPoints     == 4
MaxSubs       == 2

RECURSIVE SumOver(_, _)
\* sum of f(i) for i in 1..n
SumOver(f(_), n) == IF n = 0 THEN 0 ELSE f(n) + SumOver(f, n - 1)

\* round(): the integer nearest to a/b (b > 0), a tie going to the even one.
\* \div floors and % is non-negative, so this covers negative a as well.
RoundHalfEven(a, b) ==
    LET q == a \div b
        r == a % b
    IN  IF 2 * r > b THEN q + 1
        ELSE IF 2 * r < b THEN q
        ELSE IF q % 2 = 0 THEN q ELSE q + 1

\* (df['value'] / total * 100).round(2), in hundredths of a percent.
Percentage(value, total) == RoundHalfEven(value * 10000, total)

\* df.sort_values('value', ascending=False): insertion of row r into rows
\* already in descending order, after the rows of equal value.
RECURSIVE InsertDescending(_, _)
InsertDescending(r, rows) ==
    IF rows = <<>> THEN <<r>>
    ELSE IF Head(rows).value >= r.value
         THEN <<Head(rows)>> \o InsertDescending(r, Tail(rows))
         ELSE <<r>> \o rows

RECURSIVE sort_values(_)
sort_values(rows) ==
    IF rows = <<>> THEN <<>>
    ELSE InsertDescending(rows[Len(rows)],
                          sort_values(SubSeq(rows, 1, Len(rows) - 1)))

\* Lines 178-185: the rows with their percentage column.
WithPercentage(ts, total) ==
    [i \in 1..Len(ts) |->
        [name |-> ts[i].name, value |-> ts[i].value,
         percentage |-> IF total > 0 THEN Percentage(ts[i].value, total) ELSE 0]]

\* normalize_topic_distribution(topics), lines 165-190.  topics is a list of
\* {name, value}; the result is the DataFrame's rows.
normalize_topic_distribution(ts) ==
    IF ts = <<>> THEN <<>>
    ELSE sort_values(WithPercentage(ts, SumOver(LAMBDA i : ts[i].value, Len(ts))))

\* A variant of int below that rounds to the nearest integer, as round() would.
IntRound(num, den, e) == RoundHalfEven(num, den)

\* int(x) of the float computed for the exact value num/den (den > 0): the
\* value truncated toward zero.  e is the sign of the float's rounding error,
\* which decides the outcome only where the exact value is a whole number.
int(num, den, e) ==
    IF num % den # 0 THEN (IF num >= 0 THEN num \div den ELSE (num \div den) + 1)
    ELSE IF e < 0 /\ num > 0 THEN (num \div den) - 1
    ELSE IF e > 0 /\ num < 0 THEN (num \div den) + 1
    ELSE num \div den

\* The sums of the least-squares fit of y over x = 0, ..., n-1.
SumX(y)  == SumOver(LAMBDA i : i - 1, Len(y))
SumY(y)  == SumOver(LAMBDA i : y[i], Len(y))
SumXX(y) == SumOver(LAMBDA i : (i - 1) * (i - 1), Len(y))
SumXY(y) == SumOver(LAMBDA i : (i - 1) * y[i], Len(y))
SumYY(y) == SumOver(LAMBDA i : y[i] * y[i], Len(y))

\* The line np.polyfit(x, y, 1) fits (line 104), in exact arithmetic:
\*   slope = Sxy / Sxx,  intercept = (sy * Sxx - Sxy * sx) / (n * Sxx)
\* with Sxx = n*Sum(x^2) - Sum(x)^2, Sxy = n*Sum(x*y) - Sum(x)*Sum(y) and,
\* likewise, Syy = n*Sum(y^2) - Sum(y)^2.
Sxx(n, sx, sxx)     == n * sxx - sx * sx
Sxy(n, sx, sy, sxy) == n * sxy - sx * sy
Syy(n, sy, syy)     == n * syy - sy * sy

\* Line 112: slope * x + intercept, as numerator and denominator.
LineNum(n, sx, sy, cxx, cxy, x) == cxy * n * x + sy * cxx - cxy * sx
LineDen(n, cxx)                 == n * cxx

\* Lines 115-124: r_squared = 1 - ss_res/ss_tot equals Sxy^2 / (Sxx * Syy); with
\* a constant column ss_tot is 0, r_squared is nan and both comparisons fail.
trend_strength(r2num, r2den) ==
    IF r2den > 0 /\ 10 * r2num > 7 * r2den THEN "strong"
    ELSE IF r2den > 0 /\ 10 * r2num > 4 * r2den THEN "moderate"
    ELSE "weak"

\* Lines 120-126: the returned dict, from the sums and the centred sums.
TrendDict(n, sx, sy, cxx, cxy, cyy, e) ==
    [prediction_available |-> TRUE,
     slope |-> <<cxy, cxx>>,
     r_squared |-> <<cxy * cxy, cxx * cyy>>,
     trend_strength |-> trend_strength(cxy * cxy, cxx * cyy),
     predicted_next_year |-> int(LineNum(n, sx, sy, cxx, cxy, n), LineDen(n, cxx), e)]

TrendOf(n, sx, sy, sxx, sxy, syy, e) ==
    TrendDict(n, sx, sy, Sxx(n, sx, sxx), Sxy(n, sx, sy, sxy), Syy(n, sy, syy), e)

\* calculate_trend_prediction(df, periods=1), lines 85-126.  y is the
\* subscribers column of df, e the sign of the regression's rounding error.
calculate_trend_prediction(y, e) ==
    IF Len(y) < 3 THEN [prediction_available |-> FALSE]
    ELSE TrendOf(Len(y), SumX(y), SumY(y), SumXX(y), SumXY(y), SumYY(y), e)

\* create_growth_dataframe(growth_timeline), lines 11-37, for rows whose three
\* columns are all numeric (dropna removes none): the rows sorted by year.
RECURSIVE InsertByYear(_, _)
InsertByYear(r, rows) ==
    IF rows = <<>> THEN <<r>>
    ELSE IF Head(rows).year <= r.year
         THEN <<Head(rows)>> \o InsertByYear(r, Tail(rows))
         ELSE <<r>> \o rows

RECURSIVE create_growth_dataframe(_)
create_growth_dataframe(tl) ==
    IF tl = <<>> THEN <<>>
    ELSE InsertByYear(tl[Len(tl)],
                      create_growth_dataframe(SubSeq(tl, 1, Len(tl) - 1)))

RECURSIVE ProductOver(_, _)
ProductOver(f(_), n) == IF n = 0 THEN 1 ELSE f(n) * ProductOver(f, n - 1)

\* Mean of the year-over-year percent changes of a positive column c, as
\* numerator and denominator: Sum((c[i+1] - c[i]) / c[i] * 100) / (n - 1),
\* over the common denominator P = c[1] * ... * c[n-1].
GrowthDen(c) == (Len(c) - 1) * ProductOver(LAMBDA i : c[i], Len(c) - 1)
GrowthSum(c, P) ==
    SumOver(LAMBDA i : (c[i + 1] - c[i]) * 100 * (P \div c[i]), Len(c) - 1)
GrowthNum(c) == GrowthSum(c, ProductOver(LAMBDA i : c[i], Len(c) - 1))

\* Lines 66-74: the trend label of the average num/den (den > 0).
growth_trend(num, den) ==
    IF num > 10 * den THEN "rapid_growth"
    ELSE IF num > 0 THEN "steady_growth"
    ELSE IF num > (-5) * den THEN "stable"
    ELSE "declining"

GrowthDict(subs, vids, num, den) ==
    [avg_subscriber_growth |-> RoundHalfEven(num * 100, den),
     avg_video_growth |-> RoundHalfEven(GrowthNum(vids) * 100, GrowthDen(vids)),
     growth_trend |-> growth_trend(num, den),
     latest_subscribers |-> subs[Len(subs)],
     latest_videos |-> vids[Len(vids)]]

GrowthOf(subs, vids) == GrowthDict(subs, vids, GrowthNum(subs), GrowthDen(subs))

\* calculate_growth_rate(df), lines 40-82; averages in hundredths of a percent.
calculate_growth_rate(rows) ==
    IF Len(rows) < 2
    THEN [avg_subscriber_growth |-> 0, avg_video_growth |-> 0,
          growth_trend |-> "insufficient_data"]
    ELSE GrowthOf([i \in 1..Len(rows) |-> rows[i].subscribers],
                  [i \in 1..Len(rows) |-> rows[i].videos])

\* Lines 143-162: the statistics of the overall scores x, of sum s and sum of
\* squares q.  The standard deviation is kept as the sample variance
\* <<numerator, denominator>>; the two comparisons with it are made on squares.
ScoreStats(n, s, varNum, varDen, top, low, diff) ==
    [mean_score |-> <<s, n>>,
     std_dev_squared |-> <<varNum, varDen>>,
     score_range |-> top - low,
     close_competition |-> varNum < 100 * varDen,
     decisive_winner |-> diff * diff * varDen > varNum,
     score_difference |-> diff]

\* overall_scores.nlargest(2).iloc[1]: the largest once one top score is set aside.
SecondLargest(x, i) == Maximum({x[j] : j \in (1..Len(x)) \ {i}})
TopIndex(x) == CHOOSE i \in 1..Len(x) : \A j \in 1..Len(x) : x[j] <= x[i]
Range(x) == {x[j] : j \in 1..Len(x)}

StatsOf(x, s, q, top, second) ==
    ScoreStats(Len(x), s, Len(x) * q - s * s, Len(x) * (Len(x) - 1),
               top, Minimum(Range(x)), top - second)

OverallStats(x) ==
    StatsOf(x, SumOver(LAMBDA i : x[i], Len(x)),
            SumOver(LAMBDA i : x[i] * x[i], Len(x)),
            Maximum(Range(x)), SecondLargest(x, TopIndex(x)))

\* calculate_battle_statistics(scores_df), lines 129-162, for the rows of the
\* DataFrame made of the scores.
calculate_battle_statistics(scores) ==
    IF Len(scores) < 2 THEN Ok([statistical_analysis |-> "insufficient_data"])
    ELSE IF \E i \in 1..Len(scores) : "overall" \notin DOMAIN scores[i]
    THEN Raise("KeyError: overall")
    ELSE Ok(OverallStats([i \in 1..Len(scores) |-> scores[i].overall]))

\* calculate_confidence_interval(score), lines 193-225, with the defaults
\* sample_size=100 and confidence=0.95, for a whole score in 0..100; the
\* results are in tenths.  margin = 1.96 * sqrt(p(1-p)/100) * 100 with
\* p = score/100, so (10*margin)^2 = 3.8416 * score * (100 - score) = sq/10000.
Interval(score, margin) ==
    [score |-> 10 * score,
     lower_bound |-> IF 10 * score - margin < 0 THEN 0 ELSE 10 * score - margin,
     upper_bound |-> IF 10 * score + margin > 1000 THEN 1000
                     ELSE 10 * score + margin,
     margin_of_error |-> margin]

RoundedRoot(sq) ==
    CHOOSE m \in 0..100 :
        /\ (2 * m - 1) * (2 * m - 1) * 10000 <= 4 * sq \/ m = 0
        /\ 4 * sq < (2 * m + 1) * (2 * m + 1) * 10000

calculate_confidence_interval(score) ==
    Interval(score, RoundedRoot(38416 * score * (100 - score)))

(***************************************************************************)
(*                 THE MODEL'S ANSWERS AND THE REPORTS                     *)
(***************************************************************************)

Threads == {"t1", "t2"}

\* Channel names a caller may pass, and str.lower() on them.
Names == {"MrBeast", "mrbeast", "Vsauce"}
lower(n) == IF n = "MrBeast" THEN "mrbeast"
            ELSE IF n = "Vsauce" THEN "vsauce"
            ELSE n

\* Content of the object bodies the model may answer with.  A member that is
\* absent from the object is absent from the record.
Members(b) ==
    CASE b = "chanA" ->
           [channelName |-> "Channel", stats |-> "statsA",
            growthTimeline |-> <<[year |-> 2021, subscribers |-> 2, videos |-> 4],
                                 [year |-> 2020, subscribers |-> 1, videos |-> 2],
                                 [year |-> 2022, subscribers |-> 2, videos |-> 5]>>,
            topicAnalysis |->
                [topicDistribution |-> <<[name |-> "Gaming", value |-> 1],
                                         [name |-> "Vlogs", value |-> 3]>>]]
      [] b = "chanB" ->
           [channelName |-> "Channel", stats |-> "statsB",
            growthTimeline |-> <<[year |-> 2020, subscribers |-> 1, videos |-> 1]>>]
      [] b = "noStats" ->
           [channelName |-> "Channel", growthTimeline |-> <<>>]
      [] b = "scores0" ->
           [scores |-> <<>>, verdict |-> "verdict"]
      [] b = "scores1" ->
           [scores |-> <<[channelName |-> "c1", overall |-> 80]>>,
            verdict |-> "verdict"]
      [] b = "scores2" ->
           [scores |-> <<[channelName |-> "c1", overall |-> 80],
                         [channelName |-> "c2", overall |-> 90]>>,
            verdict |-> "verdict"]
      [] b = "scores3" ->
           [scores |-> <<[channelName |-> "c1", overall |-> 90],
                         [channelName |-> "c2", overall |-> 85],
                         [channelName |-> "c3", overall |-> 50]>>,
            verdict |-> "verdict"]
      [] b = "noScores" ->
           [verdict |-> "verdict"]
      [] b = "noVerdict" ->
           [scores |-> <<[channelName |-> "c1", overall |-> 80]>>]
      [] b = "noOverall" ->
           [scores |-> <<[channelName |-> "c1"], [channelName |-> "c2"]>>,
            verdict |-> "verdict"]
      [] b = "truthOwn" ->
           [videoTitle |-> "Model Title", creatorName |-> "Model Creator",
            truthScore |-> 50]
      [] b = "truthBare" ->
           [summaryVerdict |-> "unverified"]

\* The Python value of a parsed JSON text: a dict for an object, otherwise a
\* value that is no dict (a list or a number).
IsDict(v)   == v # <<>> /\ v[1] = "{"
DictOf(v)   == IF Len(v) = 3 THEN Members(v[2]) ELSE [x \in {} |-> 0]
Has(d, key) == key \in DOMAIN d

\* A model response: generate_content raises, or returns an object with a
\* text and grounding chunks (each chunk is the uri of its web source).
Response(raises, t, chunks) == [raises |-> raises, text |-> t, chunks |-> chunks]
NoResponse == Response(TRUE, <<>>, <<>>)

ChannelResponses ==
    { NoResponse,
      Response(FALSE, <<>>, <<>>),
      Response(FALSE, <<"json">>, <<>>),
      Response(FALSE, <<Digit>>, <<>>),
      Response(FALSE, <<"{", "noStats", "}">>, <<>>),
      Response(FALSE, <<Fence, "json", "{", "chanA", "}", Fence>>,
               <<"uri1", "uri2", "uri1">>),
      Response(FALSE, <<"{", "chanB", "}">>, <<>>) }

BattleResponses ==
    { NoResponse,
      Response(FALSE, <<"json">>, <<>>),
      Response(FALSE, <<"[", "]">>, <<>>) }
    \cup { Response(FALSE, <<"{", b, "}">>, <<>>) : b \in BattleBodies }

TruthResponses ==
    { NoResponse,
      Response(FALSE, <<"json">>, <<>>),
      Response(FALSE, <<"[", "]">>, <<>>),
      Response(FALSE, <<"json", "{", "truthOwn", "}">>, <<"uri1", "uri1">>),
      Response(FALSE, <<"{", "truthBare", "}">>, <<>>) }

\* Lines 161-167 and 319-325: sources deduplicated by uri, first seen kept.
RECURSIVE unique_sources(_)
unique_sources(chunks) ==
    IF chunks = <<>> THEN <<>>
    ELSE LET init == unique_sources(SubSeq(chunks, 1, Len(chunks) - 1))
             last == chunks[Len(chunks)]
         IN  IF \E i \in 1..Len(init) : init[i] = last
             THEN init ELSE Append(init, last)

(***************************************************************************)
(*              PURE PARTS OF THE ORCHESTRATORS AND HANDLERS               *)
(***************************************************************************)

Empty == [x \in {} |-> 0]

\* Lines 244-262 of validate_channel_data: the statistics attached to the
\* dict d, whose growth timeline makes the DataFrame rows.
Enhanced(d, rows, trend_pred, topic) ==
    [growthStatistics |-> calculate_growth_rate(rows)]
    @@ (IF trend_pred.prediction_available
        THEN [trendPrediction |-> trend_pred] ELSE Empty)
    @@ (IF topic
        THEN [topicAnalysis |->
                [d.topicAnalysis EXCEPT !.topicDistribution =
                    normalize_topic_distribution(@)]]
        ELSE Empty)
    @@ d

Subscribers(rows) == [i \in 1..Len(rows) |-> rows[i].subscribers]

EnhancedFrom(d, rows) ==
    Enhanced(d, rows, calculate_trend_prediction(Subscribers(rows), 0),
             Has(d, "topicAnalysis") /\ Has(d.topicAnalysis, "topicDistribution"))

\* Lines 239-242: the required fields, in order.
Validated(d) ==
    IF ~Has(d, "channelName") THEN Raise("Missing required field: channelName")
    ELSE IF ~Has(d, "stats") THEN Raise("Missing required field: stats")
    ELSE IF ~Has(d, "growthTimeline")
    THEN Raise("Missing required field: growthTimeline")
    ELSE Ok(EnhancedFrom(d, create_growth_dataframe(d.growthTimeline)))

\* validate_channel_data(channel_data), lines 228-262.  A list answers every
\* "field not in channel_data" with true; a number raises on the test itself.
validate_channel_data(v) ==
    IF ~IsDict(v)
    THEN IF v[1] = "[" THEN Raise("Missing required field: channelName")
         ELSE Raise("TypeError: argument is not iterable")
    ELSE Validated(DictOf(v))

\* Lines 148-169 of analyze_channel: the sources attached.
WithSources(valid, resp) ==
    IF ~valid.ok THEN valid
    ELSE Ok([sources |-> unique_sources(resp.chunks)] @@ valid.value)

ReportFrom(parse, resp) ==
    IF ~parse.ok THEN parse
    ELSE WithSources(validate_channel_data(parse.value), resp)

\* Lines 143-169 of analyze_channel, up to the cache write: the report, or
\* the exception that leaves the try block.
ChannelReport(resp) == ReportFrom(extract_json(resp.text), resp)

\* Line 109: cache_key = f"channel:{channel_name.lower()}".
CacheKey_CaseSensitive(channel_name) == <<"channel", channel_name>>
CacheKey(channel_name) == <<"channel", lower(channel_name)>>

\* dict item assignment d[k] = v.
Store(d, k, v) == (k :> v) @@ d

StoreIfOk(c, key, outcome) == IF outcome.ok THEN Store(c, key, outcome.value) ELSE c

\* A variant of CacheAfter below that writes the parsed data before validating.
CacheAfter_StoreFirst(c, key, resp) == StoreIfOk(c, key, extract_json(resp.text))

\* Line 170, reached only when nothing before it raised.
CacheAfter(c, key, resp) == StoreIfOk(c, key, ChannelReport(resp))

\* Lines 204-214 of run_battle: the result assembled from the synthesis dict.
Assembled(chans, synthesis, battle_stats) ==
    IF ~battle_stats.ok THEN battle_stats
    ELSE IF ~Has(synthesis, "verdict") THEN Raise("KeyError: verdict")
    ELSE Ok([channels |-> chans, scores |-> synthesis.scores,
             verdict |-> synthesis.verdict, statistics |-> battle_stats.value])

Synthesized(chans, synthesis) ==
    IF ~Has(synthesis, "scores") THEN Raise("KeyError: scores")
    ELSE Assembled(chans, synthesis, calculate_battle_statistics(synthesis.scores))

BattleFrom(chans, parse) ==
    IF ~parse.ok THEN parse
    ELSE IF ~IsDict(parse.value) THEN Raise("TypeError: indices must be integers")
    ELSE Synthesized(chans, DictOf(parse.value))

\* Lines 201-214 of run_battle: the battle result, or the exception raised.
BattleResult(chans, resp) == BattleFrom(chans, extract_json(resp.text))

\* Lines 61-62 of api_run_battle: the size check that lets a battle through.
BattleSizeOk_AtLeastOne(chans) == Len(chans) >= 1 /\ Len(chans) <= 5
BattleSizeOk(chans) == ~(Len(chans) < 2 \/ Len(chans) > 5)

\* A video URL by its parts: the site as written, the path shape after it and
\* the length of the identifier segment.  For example
\*   [site |-> "youtube.com/", shape |-> "watch?v=", idlen |-> 11]
\* is https://www.youtube.com/watch?v=dQw4w9WgXcQ.
Url(site, shape, idlen) == [site |-> site, shape |-> shape, idlen |-> idlen]
Urls ==
    { Url("youtube.com/", "watch?v=", 11),
      Url("youtube.com/", "shorts/", 11),
      Url("youtube.com/", "embed/", 11),
      Url("youtu.be/", "", 11),
      Url("youtube.com/", "watch?v=", 5),
      Url("youtube.com/", "channel/", 11),
      Url("YouTube.com/", "watch?v=", 11),
      Url("vimeo.com/", "", 11) }

lowerSite(site) == IF site = "YouTube.com/" THEN "youtube.com/" ELSE site

\* Line 225: the domain substring test on the lower-cased input.
is_url(u) == lowerSite(u.site) \in {"youtube.com/", "youtu.be/"}

\* extract_video_id(url), lines 71-83: Some("id") or None.  The patterns are
\* matched against the input as written and want 11 identifier characters.
extract_video_id(u) ==
    IF /\ u.idlen >= 11
       /\ \/ u.site = "youtube.com/" /\ u.shape \in {"watch?v=", "embed/", "v/"}
          \/ u.site = "youtu.be/" /\ u.shape = ""
          \/ u.site = "youtube.com/" /\ u.shape = "shorts/"
    THEN Some("id") ELSE None

InvalidUrl  == "Please provide a valid YouTube URL"
NoVideoId   == "Could not extract video ID from URL"
NoMetadata  == "Could not fetch video information"
ModelFailed == "generate_content raised"

\* Lines 225-232 of analyze_video_truth: the exception raised by the two
\* input checks, or None when the call goes on to the metadata fetch.
TruthInputError_NoIdCheck(u) == IF ~is_url(u) THEN Some(InvalidUrl) ELSE None
TruthInputError(u) ==
    IF ~is_url(u) THEN Some(InvalidUrl)
    ELSE IF extract_video_id(u) = None THEN Some(NoVideoId)
    ELSE None

\* What the oEmbed request may come to: an exception, a non-success status,
\* or a JSON document.
OEmbedReplies ==
    { [raises |-> TRUE,  ok |-> FALSE, data |-> Empty],
      [raises |-> FALSE, ok |-> FALSE, data |-> Empty],
      [raises |-> FALSE, ok |-> TRUE,
       data |-> [title |-> "Real Title", author_name |-> "Real Creator"]],
      [raises |-> FALSE, ok |-> TRUE, data |-> [title |-> "Model Title"]] }

\* fetch_video_metadata(video_url), lines 86-102: Some(metadata) or None.
fetch_video_metadata(reply) ==
    IF reply.raises \/ ~reply.ok THEN None
    ELSE Some([title  |-> IF Has(reply.data, "title")
                          THEN reply.data.title ELSE "Unknown Title",
               author |-> IF Has(reply.data, "author_name")
                          THEN reply.data.author_name ELSE "Unknown Creator"])

\* A variant of Verified below that fills the two fields only where the
\* model left them out.
Verified_KeepModel(analysis, md) ==
    analysis @@ [videoTitle |-> md.title, creatorName |-> md.author]

\* Lines 298-299: the two fields overwritten with the fetched metadata.
Verified(analysis, md) ==
    [videoTitle |-> md.title, creatorName |-> md.author] @@ analysis

\* Lines 301-327: the confidence interval and the references attached.
Completed(analysis, resp) ==
    [references |-> unique_sources(resp.chunks)]
    @@ (IF Has(analysis, "truthScore")
        THEN [scoreConfidence |-> calculate_confidence_interval(analysis.truthScore)]
        ELSE Empty)
    @@ analysis

TruthFrom(parse, resp, md) ==
    IF ~parse.ok THEN parse
    ELSE IF ~IsDict(parse.value) THEN Raise("TypeError: item assignment")
    ELSE Ok(Completed(Verified(DictOf(parse.value), md), resp))

\* Lines 295-329 of analyze_video_truth: the report, or the exception raised.
TruthReport(resp, md) == TruthFrom(extract_json(resp.text), resp, md)

(***************************************************************************)
(*                     THE REQUEST-HANDLING STATE MACHINE                  *)
(***************************************************************************)

\* Bound: the longest channel list a battle request carries.
MaxBattle == 6

\* The names battles are run over, and the channel lists of the requests.
BattleNames == {"mrbeast", "Vsauce"}
NameLists == UNION {[1..n -> BattleNames] : n \in 0..MaxBattle}

ApiOps     == {"api_analyze_channel", "api_run_battle", "api_analyze_truth"}
ChannelOps == {"api_analyze_channel", "analyze_channel"}
BattleOps  == {"api_run_battle", "run_battle"}
TruthOps   == {"api_analyze_truth", "analyze_video_truth"}

ServerInit ==
    /\ cache = Empty
    /\ returned = Empty
    /\ pc = [t \in Threads |-> "idle"]
    /\ op = [t \in Threads |-> "none"]
    /\ arg = [t \in Threads |-> None]
    /\ idx = [t \in Threads |-> 0]
    /\ channels = [t \in Threads |-> <<>>]
    /\ response = [t \in Threads |-> NoResponse]
    /\ metadata = [t \in Threads |-> None]
    /\ result = [t \in Threads |-> None]
    /\ err = [t \in Threads |-> None]
    /\ status = [t \in Threads |-> 0]
    /\ calls = [t \in Threads |-> <<>>]
    /\ fetches = [t \in Threads |-> 0]
    /\ lastCall = [t \in Threads |-> None]
    /\ entryCache = [t \in Threads |-> Empty]

\* A request enters at entry point o with body or argument a and comes to
\* position p, with exception e and HTTP status st if it
\* is answered at once.  Everything local to the thread starts afresh.
Begin(t, o, a, p, e, st) ==
    /\ op' = [op EXCEPT ![t] = o]
    /\ arg' = [arg EXCEPT ![t] = a]
    /\ pc' = [pc EXCEPT ![t] = p]
    /\ err' = [err EXCEPT ![t] = e]
    /\ status' = [status EXCEPT ![t] = st]
    /\ idx' = [idx EXCEPT ![t] = 1]
    /\ channels' = [channels EXCEPT ![t] = <<>>]
    /\ response' = [response EXCEPT ![t] = NoResponse]
    /\ metadata' = [metadata EXCEPT ![t] = None]
    /\ result' = [result EXCEPT ![t] = None]
    /\ calls' = [calls EXCEPT ![t] = <<>>]
    /\ fetches' = [fetches EXCEPT ![t] = 0]
    /\ lastCall' = [lastCall EXCEPT ![t] = None]
    /\ entryCache' = [entryCache EXCEPT ![t] = cache]
    /\ UNCHANGED <<cache, returned, pureVars>>

\* The service function returns v / raises e to its caller: the handler
\* answers 200 / 500 (app.py lines 45-48, 68-71, 85-88), a direct caller
\* gets the value or the exception.
Return(t, v) ==
    /\ pc' = [pc EXCEPT ![t] = "done"]
    /\ result' = [result EXCEPT ![t] = Some(v)]
    /\ status' = [status EXCEPT ![t] = IF op[t] \in ApiOps THEN 200 ELSE 0]
    /\ UNCHANGED err

Throw(t, e) ==
    /\ pc' = [pc EXCEPT ![t] = "done"]
    /\ err' = [err EXCEPT ![t] = Some(e)]
    /\ status' = [status EXCEPT ![t] = IF op[t] \in ApiOps THEN 500 ELSE 0]
    /\ UNCHANGED result

Outcome(t, outcome) ==
    IF outcome.ok THEN Return(t, outcome.value) ELSE Throw(t, outcome.error)

\* The answer has gone out (or the direct caller has its value or exception)
\* and the thread is free for the next request.
Respond(t) ==
    /\ pc[t] = "done"
    /\ pc' = [pc EXCEPT ![t] = "idle"]
    /\ op' = [op EXCEPT ![t] = "none"]
    /\ arg' = [arg EXCEPT ![t] = None]
    /\ idx' = [idx EXCEPT ![t] = 0]
    /\ channels' = [channels EXCEPT ![t] = <<>>]
    /\ response' = [response EXCEPT ![t] = NoResponse]
    /\ metadata' = [metadata EXCEPT ![t] = None]
    /\ result' = [result EXCEPT ![t] = None]
    /\ err' = [err EXCEPT ![t] = None]
    /\ status' = [status EXCEPT ![t] = 0]
    /\ calls' = [calls EXCEPT ![t] = <<>>]
    /\ fetches' = [fetches EXCEPT ![t] = 0]
    /\ lastCall' = [lastCall EXCEPT ![t] = None]
    /\ entryCache' = [entryCache EXCEPT ![t] = Empty]
    /\ UNCHANGED <<cache, returned, pureVars>>

\* ---- analyze_channel ----

\* api_analyze_channel, app.py lines 34-48, up to the call of analyze_channel.
\* data is request.get_json(): None, or a body whose channelName may be absent.
api_analyze_channel(t) ==
    /\ pc[t] = "idle"
    /\ \E data \in {None} \cup {Some([channelName |-> n]) :
                                 n \in {None} \cup {Some(m) : m \in Names}} :
        IF data = None
        THEN Begin(t, "api_analyze_channel", None, "done",
                   Some("AttributeError: NoneType has no attribute get"), 500)
        ELSE IF data[1].channelName = None
        THEN Begin(t, "api_analyze_channel", data, "done", None, 400)
        ELSE Begin(t, "api_analyze_channel", data, "ac_lookup", None, 0)

\* analyze_channel called by another caller than the handler.
call_analyze_channel(t) ==
    /\ pc[t] = "idle"
    /\ \E n \in Names : Begin(t, "analyze_channel", Some(n), "ac_lookup", None, 0)

\* The request field a handler read, or the argument of a direct call: None
\* where the field is absent or the request has no JSON body.
Input(t) ==
    IF op[t] \in ApiOps /\ arg[t] = None THEN None
    ELSE IF op[t] = "api_analyze_channel" THEN arg[t][1].channelName
    ELSE IF op[t] = "api_run_battle" THEN arg[t][1].channels
    ELSE IF op[t] = "api_analyze_truth" THEN arg[t][1].videoInput
    ELSE arg[t]

\* The channel_name of the analyze_channel call the thread is in.
ChannelName(t) == IF op[t] \in BattleOps THEN Input(t)[1][idx[t]] ELSE Input(t)[1]

\* analyze_channel returns report: to the handler or direct caller, or into
\* run_battle's list comprehension (line 187), which goes on to the next name
\* or, after the last one, to the synthesis.
AnalyzeReturns(t, report) ==
    IF op[t] \in ChannelOps
    THEN Return(t, report) /\ UNCHANGED <<idx, channels>>
    ELSE /\ channels' = [channels EXCEPT ![t] = Append(@, report)]
         /\ idx' = [idx EXCEPT ![t] = @ + 1]
         /\ pc' = [pc EXCEPT ![t] =
                      IF idx[t] < Len(Input(t)[1]) THEN "ac_lookup" ELSE "rb_generate"]
         /\ UNCHANGED <<result, err, status>>

Known(n) == IF lower(n) \in DOMAIN returned THEN Some(returned[lower(n)]) ELSE None

\* The record of the analyze_channel call that starts now.
Call(n) == [name |-> n, before |-> Known(n), cacheBefore |-> cache,
            outcome |-> "running", value |-> None, modelCalls |-> 0]

LookupWith(t, n, cache_key) ==
    IF cache_key \in DOMAIN cache
    THEN /\ lastCall' = [lastCall EXCEPT ![t] =
                Some([Call(n) EXCEPT !.outcome = "returned",
                                     !.value = Some(cache[cache_key])])]
         /\ returned' = Store(returned, lower(n),
                              [by |-> n, report |-> cache[cache_key]])
         /\ AnalyzeReturns(t, cache[cache_key])
    ELSE /\ lastCall' = [lastCall EXCEPT ![t] = Some(Call(n))]
         /\ pc' = [pc EXCEPT ![t] = "ac_generate"]
         /\ UNCHANGED <<returned, idx, channels, result, err, status>>

\* Lines 109-113: the cache lookup, and the return on a hit.
AC_Lookup(t) ==
    /\ pc[t] = "ac_lookup"
    /\ LookupWith(t, ChannelName(t), CacheKey(ChannelName(t)))
    /\ UNCHANGED <<cache, op, arg, entryCache, response, metadata, calls, fetches, pureVars>>

\* Lines 137-142: the model invocation, which raises or answers.
AC_Generate(t) ==
    /\ pc[t] = "ac_generate"
    /\ calls' = [calls EXCEPT ![t] =
                    Append(@, [kind |-> "channel", name |-> ChannelName(t)])]
    /\ \E r \in ChannelResponses :
         IF r.raises
         THEN /\ Throw(t, ModelFailed)
              /\ lastCall' = [lastCall EXCEPT ![t][1].outcome = "raised",
                                              ![t][1].modelCalls = @ + 1]
              /\ UNCHANGED response
         ELSE /\ response' = [response EXCEPT ![t] = r]
              /\ pc' = [pc EXCEPT ![t] = "ac_finish"]
              /\ lastCall' = [lastCall EXCEPT ![t][1].modelCalls = @ + 1]
              /\ UNCHANGED <<result, err, status>>
    /\ UNCHANGED <<cache, returned, op, arg, entryCache, idx, channels, metadata, fetches,
                   pureVars>>

FinishWith(t, n, outcome) ==
    IF outcome.ok
    THEN /\ lastCall' = [lastCall EXCEPT ![t][1].outcome = "returned",
                                         ![t][1].value = Some(outcome.value)]
         /\ returned' = Store(returned, lower(n),
                              [by |-> n, report |-> outcome.value])
         /\ AnalyzeReturns(t, outcome.value)
    ELSE /\ lastCall' = [lastCall EXCEPT ![t][1].outcome = "raised"]
         /\ Throw(t, outcome.error)
         /\ UNCHANGED <<returned, idx, channels>>

\* Lines 143-176: extraction, validation, sources, cache write and return, or
\* the exception re-raised by the except clause.
AC_Finish(t) ==
    /\ pc[t] = "ac_finish"
    /\ cache' = CacheAfter(cache, CacheKey(ChannelName(t)), response[t])
    /\ FinishWith(t, ChannelName(t), ChannelReport(response[t]))
    /\ UNCHANGED <<op, arg, entryCache, response, metadata, calls, fetches, pureVars>>

\* ---- run_battle ----

\* Where run_battle's list comprehension starts: at the first name, or
\* straight at the synthesis when there is none.
BattleEntry(names) == IF names = <<>> THEN "rb_generate" ELSE "ac_lookup"

\* api_run_battle, app.py lines 51-71, up to the call of run_battle, for a
\* channels field that is absent or a list of names.
api_run_battle(t) ==
    /\ pc[t] = "idle"
    /\ \E data \in {None} \cup {Some([channels |-> c]) :
                                 c \in {None} \cup {Some(l) : l \in NameLists}} :
        IF data = None
        THEN Begin(t, "api_run_battle", None, "done",
                   Some("AttributeError: NoneType has no attribute get"), 500)
        ELSE LET chans == data[1].channels IN
             IF chans = None \/ chans = Some(<<>>)
             THEN Begin(t, "api_run_battle", data, "done", None, 400)
             ELSE IF ~BattleSizeOk(chans[1])
             THEN Begin(t, "api_run_battle", data, "done", None, 400)
             ELSE Begin(t, "api_run_battle", data, BattleEntry(chans[1]), None, 0)

\* run_battle called by another caller than the handler.
call_run_battle(t) ==
    /\ pc[t] = "idle"
    /\ \E l \in NameLists :
        Begin(t, "run_battle", Some(l), BattleEntry(l), None, 0)

\* Lines 199-200: the synthesis invocation.
RB_Generate(t) ==
    /\ pc[t] = "rb_generate"
    /\ calls' = [calls EXCEPT ![t] = Append(@, [kind |-> "synthesis"])]
    /\ \E r \in BattleResponses :
         IF r.raises
         THEN Throw(t, ModelFailed) /\ UNCHANGED response
         ELSE /\ response' = [response EXCEPT ![t] = r]
              /\ pc' = [pc EXCEPT ![t] = "rb_finish"]
              /\ UNCHANGED <<result, err, status>>
    /\ UNCHANGED <<cache, returned, op, arg, entryCache, idx, channels, metadata, fetches,
                   lastCall, pureVars>>

\* Lines 201-218: the result assembled, or the exception re-raised.
RB_Finish(t) ==
    /\ pc[t] = "rb_finish"
    /\ Outcome(t, BattleResult(channels[t], response[t]))
    /\ UNCHANGED <<cache, returned, op, arg, entryCache, idx, channels, response, metadata,
                   calls, fetches, lastCall, pureVars>>

\* ---- analyze_video_truth ----

\* Lines 223-232: the call enters and passes or fails the two input checks.
EnterTruth(t, o, a, u) ==
    IF TruthInputError(u) # None
    THEN Begin(t, o, a, "done", TruthInputError(u),
               IF o \in ApiOps THEN 500 ELSE 0)
    ELSE Begin(t, o, a, "avt_fetch", None, 0)

\* api_analyze_truth, app.py lines 74-88, up to the call of analyze_video_truth.
api_analyze_truth(t) ==
    /\ pc[t] = "idle"
    /\ \E data \in {None} \cup {Some([videoInput |-> v]) :
                                 v \in {None} \cup {Some(u) : u \in Urls}} :
        IF data = None
        THEN Begin(t, "api_analyze_truth", None, "done",
                   Some("AttributeError: NoneType has no attribute get"), 500)
        ELSE IF data[1].videoInput = None
        THEN Begin(t, "api_analyze_truth", data, "done", None, 400)
        ELSE EnterTruth(t, "api_analyze_truth", data, data[1].videoInput[1])

\* analyze_video_truth called by another caller than the handler.
call_analyze_video_truth(t) ==
    /\ pc[t] = "idle"
    /\ \E u \in Urls : EnterTruth(t, "analyze_video_truth", Some(u), u)

Fetched(t, md) ==
    IF md = None
    THEN Throw(t, NoMetadata) /\ UNCHANGED metadata
    ELSE /\ metadata' = [metadata EXCEPT ![t] = md]
         /\ pc' = [pc EXCEPT ![t] = "avt_generate"]
         /\ UNCHANGED <<result, err, status>>

\* Lines 236-239: the metadata fetch, and the raise when it found nothing.
AVT_Fetch(t) ==
    /\ pc[t] = "avt_fetch"
    /\ fetches' = [fetches EXCEPT ![t] = @ + 1]
    /\ \E reply \in OEmbedReplies : Fetched(t, fetch_video_metadata(reply))
    /\ UNCHANGED <<cache, returned, op, arg, entryCache, idx, channels, response, calls,
                   lastCall, pureVars>>

\* Lines 289-294: the model invocation.
AVT_Generate(t) ==
    /\ pc[t] = "avt_generate"
    /\ calls' = [calls EXCEPT ![t] = Append(@, [kind |-> "truth"])]
    /\ \E r \in TruthResponses :
         IF r.raises
         THEN Throw(t, ModelFailed) /\ UNCHANGED response
         ELSE /\ response' = [response EXCEPT ![t] = r]
              /\ pc' = [pc EXCEPT ![t] = "avt_finish"]
              /\ UNCHANGED <<result, err, status>>
    /\ UNCHANGED <<cache, returned, op, arg, entryCache, idx, channels, metadata, fetches,
                   lastCall, pureVars>>

\* Lines 295-333: the report assembled, or the exception re-raised.
AVT_Finish(t) ==
    /\ pc[t] = "avt_finish"
    /\ Outcome(t, TruthReport(response[t], metadata[t][1]))
    /\ UNCHANGED <<cache, returned, op, arg, entryCache, idx, channels, response, metadata,
                   calls, fetches, lastCall, pureVars>>

(***************************************************************************)
(*                            SPECIFICATIONS                               *)
(***************************************************************************)

PureQuiet ==
    /\ text = <<>> /\ parsed = None
    /\ topics = <<>> /\ distribution = None
    /\ df = <<>> /\ fperr = 0 /\ prediction = None

\* The threads that serve requests one at a time.
Workers == {"t1"}

\* The server handling one request after another.
Init == ServerInit /\ PureQuiet
Next ==
    \/ \E t \in Workers : api_analyze_channel(t)
    \/ \E t \in Workers : call_analyze_channel(t)
    \/ \E t \in Workers : AC_Lookup(t)
    \/ \E t \in Workers : AC_Generate(t)
    \/ \E t \in Workers : AC_Finish(t)
    \/ \E t \in Workers : api_run_battle(t)
    \/ \E t \in Workers : call_run_battle(t)
    \/ \E t \in Workers : RB_Generate(t)
    \/ \E t \in Workers : RB_Finish(t)
    \/ \E t \in Workers : api_analyze_truth(t)
    \/ \E t \in Workers : call_analyze_video_truth(t)
    \/ \E t \in Workers : AVT_Fetch(t)
    \/ \E t \in Workers : AVT_Generate(t)
    \/ \E t \in Workers : AVT_Finish(t)
    \/ \E t \in Workers : Respond(t)
Spec == Init /\ [][Next]_vars

\* extract_json applied to every text of at most MaxTextLen lexemes.
Texts == UNION {[1..n -> Lexemes] : n \in 0..MaxTextLen}
InitJson ==
    /\ ServerInit
    /\ text \in Texts /\ parsed = None
    /\ topics = <<>> /\ distribution = None
    /\ df = <<>> /\ fperr = 0 /\ prediction = None
ExtractJson ==
    /\ parsed = None
    /\ parsed' = Some(extract_json(text))
    /\ UNCHANGED <<serverVars, text, topicVars, trendVars>>
SpecJson == InitJson /\ [][ExtractJson]_vars

\* normalize_topic_distribution applied to every list of at most MaxTopics
\* topics with values up to MaxTopicValue.
TopicNames == <<"A", "B", "C", "D">>
TopicLists ==
    UNION {{[i \in 1..n |-> [name |-> TopicNames[i], value |-> v[i]]] :
               v \in [1..n -> 0..MaxTopicValue]} : n \in 0..MaxTopics}
InitTopics ==
    /\ ServerInit
    /\ text = <<>> /\ parsed = None
    /\ topics \in TopicLists /\ distribution = None
    /\ df = <<>> /\ fperr = 0 /\ prediction = None
NormalizeTopics ==
    /\ distribution = None
    /\ distribution' = Some(normalize_topic_distribution(topics))
    /\ UNCHANGED <<serverVars, jsonVars, topics, trendVars>>
SpecTopics == InitTopics /\ [][NormalizeTopics]_vars

\* calculate_trend_prediction applied to every subscribers column of at most
\* MaxPoints values up to MaxSubs, under every sign of the rounding error.
InitTrend ==
    /\ ServerInit
    /\ text = <<>> /\ parsed = None
    /\ topics = <<>> /\ distribution = None
    /\ df \in UNION {[1..n -> 0..MaxSubs] : n \in 0..MaxPoints}
    /\ fperr \in {-1, 0, 1}
    /\ prediction = None
TrendPrediction ==
    /\ prediction = None
    /\ prediction' = Some(calculate_trend_prediction(df, fperr))
    /\ UNCHANGED <<serverVars, jsonVars, topicVars, df, fperr>>
SpecTrend == InitTrend /\ [][TrendPrediction]_vars

\* Requests for channel analyses served by two threads at once over the one
\* cache: each step is one thread's lookup, model invocation or finish, in any
\* order.
NextRace ==
    \/ \E t \in Threads : api_analyze_channel(t)
    \/ \E t \in Threads : call_analyze_channel(t)
    \/ \E t \in Threads : AC_Lookup(t)
    \/ \E t \in Threads : AC_Generate(t)
    \/ \E t \in Threads : AC_Finish(t)
    \/ \E t \in Threads : Respond(t)
SpecRace == Init /\ [][NextRace]_vars

(***************************************************************************)
(*                              PROPERTIES                                 *)
(***************************************************************************)

\* ---- analyze_channel and its cache ----

\* C1: once analyze_channel has returned a report for a channel name, every
\* later call whose name differs from it at most in letter case returns that
\* same report, and makes no call to the model.
C1_CachedReportReturned ==
    \A t \in Threads :
        (lastCall[t] # None /\ lastCall[t][1].before # None) =>
            /\ lastCall[t][1].outcome = "returned"
            /\ lastCall[t][1].value = Some(lastCall[t][1].before[1].report)
            /\ lastCall[t][1].modelCalls = 0

\* A call is answered from the cache under a name spelled in another case
\* than the name that filled it.
C1_Witness ==
    \E t \in Threads :
        /\ lastCall[t] # None
        /\ lastCall[t][1].before # None
        /\ lastCall[t][1].before[1].by # lastCall[t][1].name
        /\ lastCall[t][1].outcome = "returned"

\* C2: an analyze_channel call that raises, whether from the model call, the
\* extraction or the validation, leaves the cache exactly as it found it.
C2_FailureLeavesCache ==
    \A t \in Threads :
        (lastCall[t] # None /\ lastCall[t][1].outcome = "raised") =>
            cache = lastCall[t][1].cacheBefore

\* A call has raised at the validation, after the model had answered and the
\* extraction had succeeded, with reports of other channels in the cache.
C2_Witness ==
    \E t \in Threads :
        /\ lastCall[t] # None
        /\ lastCall[t][1].outcome = "raised"
        /\ lastCall[t][1].modelCalls = 1
        /\ err[t] = Some("Missing required field: stats")
        /\ cache # Empty

\* ---- run_battle ----

\* The battle request carries a channels list of 1 or of 6 names.
WrongSize(t) ==
    /\ Input(t) # None
    /\ Len(Input(t)[1]) = 1 \/ Len(Input(t)[1]) = 6

\* C3, as the code has it: a POST /api/run-battle request with 1 or with 6
\* channel names is answered 400 by the handler, which never calls
\* run_battle: no channel analysis starts and no model call is made.
C3_HandlerRejectsWrongSize ==
    \A t \in Threads :
        (op[t] = "api_run_battle" /\ WrongSize(t)) =>
            /\ pc[t] = "done"
            /\ status[t] = 400
            /\ result[t] = None
            /\ lastCall[t] = None
            /\ calls[t] = <<>>

\* A request with 6 names has been answered 400.
C3_Witness ==
    \E t \in Threads :
        /\ op[t] = "api_run_battle"
        /\ Input(t) # None
        /\ Len(Input(t)[1]) = 6
        /\ status[t] = 400

\* C3, as the specification states it: run_battle itself, given 1 or 6 names,
\* makes no model call and returns no result.
C3_RunBattleRejectsWrongSize ==
    \A t \in Threads :
        (op[t] \in BattleOps /\ WrongSize(t)) =>
            /\ calls[t] = <<>>
            /\ result[t] = None

\* C8, as the specification states it: the result of a battle of 2 to 5
\* names holds exactly one score for each of the names.
C8_OneScorePerName ==
    \A t \in Threads :
        (/\ op[t] \in BattleOps /\ pc[t] = "done" /\ result[t] # None
         /\ BattleSizeOk(Input(t)[1])) =>
            Len(result[t][1].scores) = Len(Input(t)[1])

\* ---- analyze_video_truth ----

\* C4: in every truth report the video title and the creator name are the
\* ones of the fetched metadata, whatever the model wrote in these fields.
C4_MetadataOverridesModel ==
    \A t \in Threads :
        (op[t] \in TruthOps /\ pc[t] = "done" /\ result[t] # None) =>
            /\ metadata[t] # None
            /\ result[t][1].videoTitle = metadata[t][1].title
            /\ result[t][1].creatorName = metadata[t][1].author

\* A report is returned from a model answer that carried a title and a
\* creator of its own, different from the fetched ones.
C4_Witness ==
    \E t \in Threads :
        /\ op[t] \in TruthOps /\ pc[t] = "done" /\ result[t] # None
        /\ \E b \in TruthBodies :
              /\ b \in Range(response[t].text)
              /\ Has(Members(b), "videoTitle")
              /\ Members(b).videoTitle # metadata[t][1].title
              /\ Members(b).creatorName # metadata[t][1].author

\* C5: analyze_video_truth checks in this order: an input outside YouTube
\* fails before anything else; a YouTube URL without a recognisable video ID
\* fails before any fetch; the metadata is fetched at most once and a failed
\* fetch fails the call before the model is called; the model is called at
\* most once, and only with the metadata in hand.
C5_TruthCheckOrder ==
    \A t \in Threads :
        (op[t] \in TruthOps /\ Input(t) # None) =>
            /\ fetches[t] <= 1
            /\ Len(calls[t]) <= 1
            /\ ~is_url(Input(t)[1]) =>
                  /\ pc[t] = "done" /\ err[t] = Some(InvalidUrl)
                  /\ fetches[t] = 0 /\ calls[t] = <<>>
            /\ (is_url(Input(t)[1]) /\ extract_video_id(Input(t)[1]) = None) =>
                  /\ pc[t] = "done" /\ err[t] = Some(NoVideoId)
                  /\ fetches[t] = 0 /\ calls[t] = <<>>
            /\ (fetches[t] = 1 /\ metadata[t] = None) =>
                  /\ pc[t] = "done" /\ err[t] = Some(NoMetadata)
                  /\ calls[t] = <<>>
            /\ calls[t] # <<>> => (fetches[t] = 1 /\ metadata[t] # None)
            /\ pc[t] = "avt_fetch" => fetches[t] = 0

\* A call has failed at the metadata fetch, past both input checks and
\* before the model.
C5_Witness ==
    \E t \in Threads :
        /\ op[t] \in TruthOps /\ Input(t) # None
        /\ is_url(Input(t)[1]) /\ extract_video_id(Input(t)[1]) # None
        /\ fetches[t] = 1
        /\ err[t] = Some(NoMetadata)
        /\ calls[t] = <<>>

\* ---- the HTTP handlers ----

\* The request's field is absent, or the battle has a wrong number of
\* channels, or the video input is no YouTube URL with a video ID in it.
InvalidInput(t) ==
    \/ Input(t) = None
    \/ op[t] = "api_run_battle" /\ (Input(t)[1] = <<>> \/ ~BattleSizeOk(Input(t)[1]))
    \/ op[t] = "api_analyze_truth" /\ TruthInputError(Input(t)[1]) # None

\* C6, as the specification states it: a request with a JSON body that is
\* not answered 200 is answered 400 when its input is invalid and 500 on
\* every other failure.
C6_InvalidInputIs400 ==
    \A t \in Threads :
        (op[t] \in ApiOps /\ arg[t] # None /\ pc[t] = "done" /\ status[t] # 200) =>
            status[t] = (IF InvalidInput(t) THEN 400 ELSE 500)

\* ---- extract_json ----

\* The text has a first opening brace with a closing brace after it.
HasBraceSpan(t) == \E i, j \in 1..Len(t) : i < j /\ t[i] = "{" /\ t[j] = "}"

\* C7, as the specification states it: extract_json fails on every text
\* that contains no span from an opening to a closing brace, a JSON object
\* being the only thing it returns.
C7_NoObjectNoResult ==
    (parsed # None /\ ~HasBraceSpan(text)) => ~parsed[1].ok

\* ---- normalize_topic_distribution ----

SumPercentages(d) == SumOver(LAMBDA i : d[i].percentage, Len(d))

\* C9, as the specification states it: for topics of positive total the
\* percentages sum to 100 (10000 hundredths) and the entries are in
\* descending order of value.
C9_PercentagesSumTo100 ==
    (distribution # None /\ SumOver(LAMBDA i : topics[i].value, Len(topics)) > 0) =>
        /\ SumPercentages(distribution[1]) = 10000
        /\ \A i \in 1..(Len(distribution[1]) - 1) :
              distribution[1][i].value >= distribution[1][i + 1].value

\* ---- calculate_trend_prediction ----

Abs(x) == IF x < 0 THEN -x ELSE x

\* The fitted line's exact value at the next position, as a fraction.
NextNum(y) ==
    LineNum(Len(y), SumX(y), SumY(y), Sxx(Len(y), SumX(y), SumXX(y)),
            Sxy(Len(y), SumX(y), SumY(y), SumXY(y)), Len(y))
NextDen(y) == LineDen(Len(y), Sxx(Len(y), SumX(y), SumXX(y)))

\* C10, as the code has it: with fewer than three data points there is no
\* prediction; otherwise the predicted subscriber count is the fitted
\* line's value at the next position cut to a whole number toward zero,
\* never away from zero and never a full unit or more short of it, except
\* that a value that is exactly whole may come out one unit nearer zero.
C10_PredictionTruncated ==
    prediction # None =>
        IF Len(df) < 3
        THEN /\ ~prediction[1].prediction_available
             /\ ~Has(prediction[1], "predicted_next_year")
        ELSE /\ prediction[1].prediction_available
             /\ Abs(prediction[1].predicted_next_year) * NextDen(df) <= Abs(NextNum(df))
             /\ Abs(NextNum(df)) - Abs(prediction[1].predicted_next_year) * NextDen(df)
                   <= NextDen(df)
             /\ (Abs(NextNum(df)) % NextDen(df) # 0 \/ fperr = 0) =>
                   Abs(NextNum(df)) - Abs(prediction[1].predicted_next_year) * NextDen(df)
                       < NextDen(df)
             /\ prediction[1].predicted_next_year * NextNum(df) >= 0

\* A prediction from three or more points whose exact value lies at least
\* half a unit above the whole number returned.
C10_Witness ==
    /\ prediction # None
    /\ Len(df) >= 3
    /\ prediction[1].prediction_available
    /\ 2 * (NextNum(df) - prediction[1].predicted_next_year * NextDen(df)) >= NextDen(df)
    /\ NextNum(df) > 0

\* C10, as the specification states it: computed without rounding error,
\* the predicted count is the fitted value rounded to the nearest whole
\* number.
C10_PredictionRounded ==
    (prediction # None /\ fperr = 0 /\ Len(df) >= 3) =>
        2 * Abs(NextNum(df) - prediction[1].predicted_next_year * NextDen(df))
            <= NextDen(df)

\* ---- concurrent analyze_channel requests ----

\* Threads t and u have both finished a call of analyze_channel for the same
\* name in which each invoked the model and returned the report it computed.
BothComputed(t, u) ==
    /\ t # u
    /\ pc[t] = "done" /\ pc[u] = "done"
    /\ lastCall[t] # None /\ lastCall[u] # None
    /\ lastCall[t][1].name = lastCall[u][1].name
    /\ lastCall[t][1].outcome = "returned" /\ lastCall[u][1].outcome = "returned"
    /\ lastCall[t][1].modelCalls = 1 /\ lastCall[u][1].modelCalls = 1

\* C11: whenever two concurrent analyze_channel calls for the same name have
\* both invoked the model and both succeeded, the cache holds an entry under
\* that name's key and it is the report one of the two calls computed.
C11_RaceLeavesOneReport ==
    \A t, u \in Threads :
        BothComputed(t, u) =>
            /\ CacheKey(lastCall[t][1].name) \in DOMAIN cache
            /\ cache[CacheKey(lastCall[t][1].name)] \in
                  {lastCall[t][1].value[1], lastCall[u][1].value[1]}

\* The race: both calls found the key missing, both invoked the model and
\* computed different reports, and the cache holds u's report, written over
\* the one t had stored.
C11_Witness ==
    \E t, u \in Threads :
        /\ BothComputed(t, u)
        /\ CacheKey(lastCall[t][1].name) \notin DOMAIN lastCall[t][1].cacheBefore
        /\ CacheKey(lastCall[u][1].name) \notin DOMAIN lastCall[u][1].cacheBefore
        /\ lastCall[t][1].value # lastCall[u][1].value
        /\ cache[CacheKey(lastCall[u][1].name)] = lastCall[u][1].value[1]

\* ---- the model calls and the cache writes of a battle ----

\* The name at position i of names is neither in cache c nor an earlier name
\* of the list, letter case ignored.
FirstMiss(names, c, i) ==
    /\ <<"channel", lower(names[i])>> \notin DOMAIN c
    /\ \A j \in 1..(i - 1) : lower(names[j]) # lower(names[i])

\* The channel-analysis calls for the names from position i on that miss the
\* cache at their turn, in input order.
RECURSIVE MissCalls(_, _, _)
MissCalls(names, c, i) ==
    IF i > Len(names) THEN <<>>
    ELSE (IF FirstMiss(names, c, i)
          THEN <<[kind |-> "channel", name |-> names[i]]>> ELSE <<>>)
         \o MissCalls(names, c, i + 1)

\* Thread t has returned a battle result.
BattleReturned(t) == op[t] \in BattleOps /\ pc[t] = "done" /\ result[t] # None

\* C12, as the code has it: a successful run_battle, served alone, makes one
\* channel-analysis call for each name that was not cached before the call,
\* at its first occurrence only, in input order, and then exactly one
\* synthesis call: N+1 calls at most, fewer when a name is repeated or cached.
C12_OneCallPerMiss ==
    \A t \in Threads :
        BattleReturned(t) =>
            /\ calls[t] = MissCalls(Input(t)[1], entryCache[t], 1)
                             \o <<[kind |-> "synthesis"]>>
            /\ Len(calls[t]) <= Len(Input(t)[1]) + 1

\* A battle of two or more names has succeeded with at least one channel
\* analysis answered by the model and at least one answered from the cache.
C12_Witness ==
    \E t \in Threads :
        /\ BattleReturned(t)
        /\ Len(Input(t)[1]) >= 2
        /\ Len(calls[t]) >= 2
        /\ Len(calls[t]) < Len(Input(t)[1]) + 1

\* C12, as the specification states it: a successful run_battle over N names
\* makes N+1 model calls, one channel analysis per name in input order and
\* then the synthesis.
C12_NPlusOneCalls ==
    \A t \in Threads :
        BattleReturned(t) =>
            /\ Len(calls[t]) = Len(Input(t)[1]) + 1
            /\ \A i \in 1..Len(Input(t)[1]) :
                  /\ calls[t][i].kind = "channel"
                  /\ calls[t][i].name = Input(t)[1][i]
            /\ calls[t][Len(calls[t])].kind = "synthesis"

\* Thread t's run_battle has raised.
BattleRaised(t) == op[t] \in BattleOps /\ pc[t] = "done" /\ err[t] # None

\* The cache key of the name at position i of thread t's battle.
BattleKey(t, i) == <<"channel", lower(Input(t)[1][i])>>

\* C13, as the code has it: when run_battle, served alone, ends in an error
\* it returns no result, every entry the cache held before the call is still
\* there unchanged, and the only other entries are the reports of the
\* channels analysed with success before the failure.
C13_FailedBattleKeepsAnalysed ==
    \A t \in Threads :
        (BattleRaised(t) /\ Input(t) # None) =>
            /\ result[t] = None
            /\ \A k \in DOMAIN entryCache[t] :
                  k \in DOMAIN cache /\ cache[k] = entryCache[t][k]
            /\ \A i \in 1..Len(channels[t]) :
                  BattleKey(t, i) \in DOMAIN cache /\ cache[BattleKey(t, i)] = channels[t][i]
            /\ \A k \in DOMAIN cache :
                  \/ k \in DOMAIN entryCache[t]
                  \/ \E i \in 1..Len(channels[t]) : k = BattleKey(t, i)

\* A battle has failed after one of its channels had been analysed by the
\* model, whose report the cache has gained.
C13_Witness ==
    \E t \in Threads :
        /\ BattleRaised(t) /\ Input(t) # None
        /\ result[t] = None
        /\ Len(channels[t]) >= 1
        /\ DOMAIN cache # DOMAIN entryCache[t]

\* C13, as the specification states it: when run_battle ends in an error
\* there is no result and the cache is as it was before the call.
C13_FailedBattleLeavesCache ==
    \A t \in Threads :
        BattleRaised(t) => (result[t] = None /\ cache = entryCache[t])

=============================================================================
